---- MODULE Spec2Model ----
(***************************************************************************)
(* Ingestion and retrieval pipeline of pinechatV4: the line chunker of     *)
(* components/file_upload.py and the embedding gateway, batch uploader     *)
(* and retrieval of services/pinecone_service.py.                          *)
(*                                                                         *)
(* Three specifications share the module:                                  *)
(*   SpecChunk  split_text_into_chunks applied to bounded texts            *)
(*   Spec       upload_chunks (with get_embedding and index.upsert)        *)
(*   SpecQuery  query (with get_embedding and index.query)                 *)
(***************************************************************************)
EXTENDS Integers, Sequences, FiniteSets, Bags, TLC

VARIABLES
    chunker,   \* one call of split_text_into_chunks: its arguments, position and result
    upl,       \* the caller of upload_chunks: its arguments, the call number, the outcome
    stack,     \* the activation records of upload_chunks, the innermost last
    index,     \* the vector index: a bag of stored entries
    emb,       \* the activation of get_embedding
    passes,    \* per chunk id, the get_embedding calls made for it in the current upload
    q,         \* one call of query: its arguments, position and result
    cls,       \* one call of analyze_text_category: its loop position, scores and result
    asm,       \* one call of process_text_file: its arguments and result
    ing,       \* the upload page: the document, the clock and the saves made
    svc,       \* the construction of PineconeService
    jtp,       \* one call of JapaneseTextProcessor.process_text_file
    lc         \* one call of LangChainService.get_relevant_context

vars == <<chunker, upl, stack, index, emb, passes, q, cls, asm, ing, svc, jtp, lc>>

(***************************************************************************)
(* Bounds of the model.                                                    *)
(***************************************************************************)
MaxTextLen == 5        \* characters of an input text
MaxChunkSize == 3      \* largest max_chunk_size tried
MaxChunks == 3         \* chunks handed to upload_chunks
MaxBatchSize == 3      \* largest batch_size tried
RecursionLimit == 3    \* nested upload_chunks activations the interpreter allows
MaxCalls == 2          \* top-level upload_chunks calls with the same chunks
MaxTopK == 2           \* largest top_k tried
MaxScore == 3          \* scores and thresholds are multiples of 1/MaxScore
MaxLines == 3          \* lines of a text handed to the classifier
MaxClock == 2          \* seconds the clock can reach
MaxSaves == 2          \* clicks on the save button for one uploaded file

None == "None"

Min(a, b) == IF a <= b THEN a ELSE b

(***************************************************************************)
(* Python sequence helpers.                                                *)
(***************************************************************************)
\* s[a:b] with 0-based a, b (a slice never fails on short sequences)
Slice(s, a, b) == SubSeq(s, a + 1, Min(b, Len(s)))

\* s[:n]
Take(s, n) == Slice(s, 0, n)

\* chunk.get(key, default)
Get(d, key, default) == IF key \in DOMAIN d THEN d[key] ELSE default

(***************************************************************************)
(* Texts: sequences of characters.                                         *)
(***************************************************************************)
NL == "\n"
Chars == {"a", "b", " ", NL}
Whitespace == {" ", NL}

Texts == UNION {[1..n -> Chars] : n \in 0..MaxTextLen}

\* text.split('\n'): the pieces between separators, empty pieces kept
RECURSIVE SplitLines(_)
SplitLines(s) ==
    IF \A k \in 1..Len(s) : s[k] # NL
    THEN <<s>>
    ELSE LET p == CHOOSE k \in 1..Len(s) : s[k] = NL /\ \A m \in 1..(k - 1) : s[m] # NL
         IN  <<SubSeq(s, 1, p - 1)>> \o SplitLines(SubSeq(s, p + 1, Len(s)))

\* line.strip(): leading and trailing whitespace removed
RECURSIVE LStrip(_)
LStrip(s) == IF s # <<>> /\ Head(s) \in Whitespace THEN LStrip(Tail(s)) ELSE s

RECURSIVE RStrip(_)
RStrip(s) ==
    IF s # <<>> /\ s[Len(s)] \in Whitespace THEN RStrip(SubSeq(s, 1, Len(s) - 1)) ELSE s

Strip(s) == RStrip(LStrip(s))

\* '\n'.join(parts)
RECURSIVE Join(_)
Join(parts) ==
    IF parts = <<>> THEN <<>>
    ELSE IF Len(parts) = 1 THEN parts[1]
    ELSE parts[1] \o <<NL>> \o Join(Tail(parts))

(***************************************************************************)
(* split_text_into_chunks (components/file_upload.py).                     *)
(***************************************************************************)
\* faulty variant: a line that closes the current chunk is not carried into the next one
RECURSIVE ChunkLoopLosingLine(_, _, _, _, _, _)
ChunkLoopLosingLine(lines, k, chunks, current_chunk, current_size, chunk_size) ==
    IF k > Len(lines)
    THEN IF current_chunk # <<>> THEN Append(chunks, Join(current_chunk)) ELSE chunks
    ELSE LET line == Strip(lines[k])
             line_size == Len(line)
             flush == current_size + line_size > chunk_size /\ current_chunk # <<>>
         IN  IF line = <<>>
             THEN ChunkLoopLosingLine(lines, k + 1, chunks, current_chunk, current_size,
                                      chunk_size)
             ELSE IF flush
             THEN ChunkLoopLosingLine(lines, k + 1, Append(chunks, Join(current_chunk)),
                                      <<>>, 0, chunk_size)
             ELSE ChunkLoopLosingLine(lines, k + 1, chunks, Append(current_chunk, line),
                                      current_size + line_size, chunk_size)

\* the for loop over lines, from line k on, with the loop's locals
RECURSIVE ChunkLoop(_, _, _, _, _, _)
ChunkLoop(lines, k, chunks, current_chunk, current_size, chunk_size) ==
    IF k > Len(lines)
    THEN IF current_chunk # <<>> THEN Append(chunks, Join(current_chunk)) ELSE chunks
    ELSE LET line == Strip(lines[k])
             line_size == Len(line)
             flush == current_size + line_size > chunk_size /\ current_chunk # <<>>
         IN  IF line = <<>>
             THEN ChunkLoop(lines, k + 1, chunks, current_chunk, current_size, chunk_size)
             ELSE IF flush
             THEN ChunkLoop(lines, k + 1, Append(chunks, Join(current_chunk)),
                            <<line>>, line_size, chunk_size)
             ELSE ChunkLoop(lines, k + 1, chunks,
                            Append(current_chunk, line), current_size + line_size, chunk_size)

split_text_into_chunks(text, max_chunk_size) ==
    IF text = <<>> THEN <<>>
    ELSE ChunkLoop(SplitLines(text), 1, <<>>, <<>>, 0, max_chunk_size)

ChunkerIdle == [pc |-> "idle", text |-> <<>>, max_chunk_size |-> 1, result |-> <<>>]

\* a caller hands a text and a positive max_chunk_size to the chunker
ChunkerInputs ==
    {[pc |-> "called", text |-> t, max_chunk_size |-> m, result |-> <<>>] :
        t \in Texts, m \in 1..MaxChunkSize}

SplitTextIntoChunks ==
    /\ chunker.pc = "called"
    /\ chunker' = [chunker EXCEPT
                     !.pc = "returned",
                     !.result = split_text_into_chunks(chunker.text, chunker.max_chunk_size)]
    /\ UNCHANGED <<upl, stack, index, emb, passes, q, cls, asm, ing, svc, jtp, lc>>

(***************************************************************************)
(* get_embedding (services/pinecone_service.py): the embedding gateway.    *)
(***************************************************************************)
EmbeddingMaxRetries == 3
EmbeddingRetryDelay == 1

\* response.data[0].embedding: the service's vector for a text
Embedding(text) == [embedding_of |-> text]

\* value holds what the call returned: <<>> for None, <<v>> for a vector v
EmbIdle ==
    [pc |-> "idle", text |-> <<>>, attempt |-> 0, retry_delay |-> 0,
     slept |-> <<>>, calls |-> 0, value |-> <<>>]

\* entry of get_embedding: the locals before the first attempt
GetEmbeddingCall(text) ==
    [pc |-> "try", text |-> text, attempt |-> 0, retry_delay |-> EmbeddingRetryDelay,
     slept |-> <<>>, calls |-> 0, value |-> <<>>]

\* faulty variant: one attempt more than max_retries
OnEmbeddingErrorExtraAttempt(e) ==
    IF e.attempt < EmbeddingMaxRetries
    THEN [e EXCEPT !.slept = Append(@, e.retry_delay),
                   !.retry_delay = @ * 2,
                   !.attempt = @ + 1]
    ELSE [e EXCEPT !.pc = "raised"]

\* faulty variant: the last failure is swallowed and None is returned
OnEmbeddingErrorSwallowed(e) ==
    IF e.attempt < EmbeddingMaxRetries - 1
    THEN [e EXCEPT !.slept = Append(@, e.retry_delay),
                   !.retry_delay = @ * 2,
                   !.attempt = @ + 1]
    ELSE [e EXCEPT !.pc = "returned"]

\* the except branch of one attempt: sleep and go round again, or raise
OnEmbeddingError(e) ==
    IF e.attempt < EmbeddingMaxRetries - 1
    THEN [e EXCEPT !.slept = Append(@, e.retry_delay),
                   !.retry_delay = @ * 2,
                   !.attempt = @ + 1]
    ELSE [e EXCEPT !.pc = "raised"]

\* one attempt against the embedding service that succeeds
EmbeddingAttemptOk ==
    /\ emb.pc = "try"
    /\ emb' = [emb EXCEPT !.calls = @ + 1, !.value = <<Embedding(emb.text)>>,
                         !.pc = "returned"]
    /\ UNCHANGED <<chunker, upl, stack, index, passes, q, cls, asm, ing, svc, jtp, lc>>

\* one attempt against the embedding service that fails
EmbeddingAttemptFail ==
    /\ emb.pc = "try"
    /\ emb' = OnEmbeddingError([emb EXCEPT !.calls = @ + 1])
    /\ UNCHANGED <<chunker, upl, stack, index, passes, q, cls, asm, ing, svc, jtp, lc>>

(***************************************************************************)
(* The vector index: a bag of entries, upsert keyed by id.                 *)
(***************************************************************************)
RECURSIVE SeqToBag(_)
SeqToBag(s) == IF s = <<>> THEN EmptyBag ELSE SetToBag({Head(s)}) (+) SeqToBag(Tail(s))

\* of the entries of one upsert call that share an id, the last is kept
LastPerId(vectors) ==
    {vectors[k] : k \in {k \in 1..Len(vectors) :
                            \A m \in (k + 1)..Len(vectors) : vectors[m].id # vectors[k].id}}

\* faulty variant: entries are added beside the stored ones
InsertOnly(idx, vectors) == idx (+) SeqToBag(vectors)

\* index.upsert(vectors): stored entries with an id of the call are replaced
Upsert(idx, vectors) ==
    LET ids == {vectors[k].id : k \in 1..Len(vectors)}
        kept == [e \in {e \in BagToSet(idx) : e.id \notin ids} |-> idx[e]]
    IN  kept (+) SetToBag(LastPerId(vectors))

\* describe_index_stats().total_vector_count
VectorCount(idx) == BagCardinality(idx)

StoredIds(idx) == {e.id : e \in BagToSet(idx)}

(***************************************************************************)
(* upload_chunks (services/pinecone_service.py).                           *)
(***************************************************************************)
UpsertMaxRetries == 3
UpsertRetryDelay == 2

\* the metadata dict built for one chunk
Metadata(chunk) ==
    LET md == Get(chunk, "metadata", << >>)
    IN  [text |-> chunk.text,
         filename |-> Get(chunk, "filename", ""),
         chunk_id |-> Get(chunk, "chunk_id", ""),
         main_category |-> Get(md, "main_category", ""),
         sub_category |-> Get(md, "sub_category", ""),
         city |-> Get(md, "city", ""),
         created_date |-> Get(md, "created_date", ""),
         upload_date |-> Get(md, "upload_date", ""),
         source |-> Get(md, "source", ""),
         facility_name |-> Get(md, "facility_name", ""),
         latitude |-> Get(md, "latitude", 0),
         longitude |-> Get(md, "longitude", 0),
         walking_distance |-> Get(md, "walking_distance", 0),
         walking_minutes |-> Get(md, "walking_minutes", 0),
         straight_distance |-> Get(md, "straight_distance", 0)]

\* the entry appended to vectors for an embedded chunk
VectorOf(chunk, vector) ==
    [id |-> chunk.id, values |-> vector, metadata |-> Metadata(chunk)]

\* faulty variant: the loop over batches starts at the second batch
NewFrameFromSecondBatch(chunks, batch_size) ==
    [chunks |-> chunks, batch_size |-> batch_size, i |-> batch_size, batch |-> <<>>, j |-> 0,
     vectors |-> <<>>, retry_chunks |-> <<>>, outcomes |-> <<>>, pc |-> "for_batch",
     attempt |-> 0, retry_delay |-> 0, slept |-> <<>>, sent |-> <<>>, ok |-> FALSE]

\* locals of a fresh activation of upload_chunks; outcomes (per chunk of the batch,
\* whether get_embedding returned), slept (the time.sleep calls of the batch's upsert
\* loop), sent (the lists handed to index.upsert for the batch) and ok (an upsert of
\* the batch succeeded) record what the activation did
NewFrame(chunks, batch_size) ==
    [chunks |-> chunks, batch_size |-> batch_size, i |-> 0, batch |-> <<>>, j |-> 0,
     vectors |-> <<>>, retry_chunks |-> <<>>, outcomes |-> <<>>, pc |-> "for_batch",
     attempt |-> 0, retry_delay |-> 0, slept |-> <<>>, sent |-> <<>>, ok |-> FALSE]

Top == stack[Len(stack)]
SetTop(f) == [stack EXCEPT ![Len(stack)] = f]
Pop == SubSeq(stack, 1, Len(stack) - 1)

\* the n-th chunk as process_text_file emits it; n stands for the id "<file id>_<n>"
ChunkOf(n) ==
    [id |-> n, text |-> <<"text", n>>,
     metadata |-> [id |-> n, chunk_id |-> n, filename |-> "doc.txt",
                   main_category |-> "main", sub_category |-> "sub",
                   confidence_score |-> 1,
                   city |-> "city", source |-> "source",
                   created_date |-> "created", upload_date |-> "uploaded"]]

ChunkIds == 1..MaxChunks

UploadInputs ==
    {[chunks |-> [k \in 1..n |-> ChunkOf(k)], batch_size |-> b,
      callNo |-> 0, outcome |-> "idle", result |-> None] :
        n \in 0..MaxChunks, b \in 1..MaxBatchSize}

\* a caller calls upload_chunks(chunks, batch_size=...); an empty list returns at once
UploadChunks ==
    /\ upl.outcome \in {"idle", "returned"}
    /\ upl.callNo < MaxCalls
    /\ stack = <<>>
    /\ passes' = [c \in ChunkIds |-> 0]
    /\ IF upl.chunks = <<>>
       THEN /\ upl' = [upl EXCEPT !.callNo = @ + 1, !.outcome = "returned", !.result = None]
            /\ stack' = stack
       ELSE /\ upl' = [upl EXCEPT !.callNo = @ + 1, !.outcome = "running", !.result = None]
            /\ stack' = <<NewFrame(upl.chunks, upl.batch_size)>>
    /\ UNCHANGED <<chunker, index, emb, q, cls, asm, ing, svc, jtp, lc>>

\* head of the loop over batches: the next batch is cut and its lists are emptied
StartBatch ==
    /\ stack # <<>>
    /\ Top.pc = "for_batch"
    /\ Top.i < Len(Top.chunks)
    /\ stack' = SetTop([Top EXCEPT
                          !.batch = Slice(Top.chunks, Top.i, Top.i + Top.batch_size),
                          !.j = 0, !.vectors = <<>>, !.retry_chunks = <<>>,
                          !.outcomes = <<>>, !.slept = <<>>, !.sent = <<>>, !.ok = FALSE,
                          !.pc = "for_chunk"])
    /\ UNCHANGED <<chunker, upl, index, emb, passes, q, cls, asm, ing, svc, jtp, lc>>

\* the loop over batches is exhausted: the activation returns None to its caller
UploadComplete ==
    /\ stack # <<>>
    /\ Top.pc = "for_batch"
    /\ Top.i >= Len(Top.chunks)
    /\ IF Len(stack) = 1
       THEN /\ stack' = <<>>
            /\ upl' = [upl EXCEPT !.outcome = "returned", !.result = None]
       ELSE /\ stack' = [Pop EXCEPT ![Len(stack) - 1] =
                            [@ EXCEPT !.i = @ + Pop[Len(stack) - 1].batch_size,
                                      !.pc = "for_batch"]]
            /\ upl' = upl
    /\ UNCHANGED <<chunker, index, emb, passes, q, cls, asm, ing, svc, jtp, lc>>

\* the next chunk of the batch is handed to get_embedding
CallGetEmbedding ==
    /\ stack # <<>>
    /\ Top.pc = "for_chunk"
    /\ Top.j < Len(Top.batch)
    /\ emb.pc = "idle"
    /\ emb' = GetEmbeddingCall(Top.batch[Top.j + 1].text)
    /\ passes' = [passes EXCEPT ![Top.batch[Top.j + 1].id] = @ + 1]
    /\ stack' = SetTop([Top EXCEPT !.pc = "embedding"])
    /\ UNCHANGED <<chunker, upl, index, q, cls, asm, ing, svc, jtp, lc>>

\* faulty variant: a chunk whose embedding failed is forgotten
OnChunkErrorDropped(f, chunk) == f

\* the except branch of the loop over chunks: the chunk joins retry_chunks
OnChunkError(f, chunk) == [f EXCEPT !.retry_chunks = Append(@, chunk)]

\* get_embedding returned: the chunk's entry is appended to vectors
ChunkEmbedded ==
    /\ stack # <<>>
    /\ Top.pc = "embedding"
    /\ emb.pc = "returned"
    /\ stack' = SetTop([Top EXCEPT
                          !.vectors = Append(@, VectorOf(Top.batch[Top.j + 1], emb.value[1])),
                          !.outcomes = Append(@, TRUE),
                          !.j = @ + 1, !.pc = "for_chunk"])
    /\ emb' = EmbIdle
    /\ UNCHANGED <<chunker, upl, index, passes, q, cls, asm, ing, svc, jtp, lc>>

\* get_embedding raised: the chunk is set aside and the loop goes on
ChunkFailed ==
    /\ stack # <<>>
    /\ Top.pc = "embedding"
    /\ emb.pc = "raised"
    /\ stack' = SetTop([OnChunkError(Top, Top.batch[Top.j + 1]) EXCEPT
                          !.outcomes = Append(@, FALSE),
                          !.j = @ + 1, !.pc = "for_chunk"])
    /\ emb' = EmbIdle
    /\ UNCHANGED <<chunker, upl, index, passes, q, cls, asm, ing, svc, jtp, lc>>

\* the batch's chunks are done: enter the upsert loop when vectors is non-empty
BatchEmbedded ==
    /\ stack # <<>>
    /\ Top.pc = "for_chunk"
    /\ Top.j >= Len(Top.batch)
    /\ stack' = SetTop(IF Top.vectors # <<>>
                       THEN [Top EXCEPT !.pc = "upsert", !.attempt = 0,
                                        !.retry_delay = UpsertRetryDelay]
                       ELSE [Top EXCEPT !.pc = "retry_check"])
    /\ UNCHANGED <<chunker, upl, index, emb, passes, q, cls, asm, ing, svc, jtp, lc>>

\* one index.upsert call that succeeds: break out of the attempt loop
UpsertOk ==
    /\ stack # <<>>
    /\ Top.pc = "upsert"
    /\ index' = Upsert(index, Top.vectors)
    /\ stack' = SetTop([Top EXCEPT !.sent = Append(@, Top.vectors), !.ok = TRUE,
                                   !.pc = "retry_check"])
    /\ UNCHANGED <<chunker, upl, emb, passes, q, cls, asm, ing, svc, jtp, lc>>

\* faulty variant: the delay is not doubled
OnUpsertErrorFlat(f) ==
    IF f.attempt < UpsertMaxRetries - 1
    THEN [f EXCEPT !.slept = Append(@, f.retry_delay), !.attempt = @ + 1]
    ELSE [f EXCEPT !.pc = "raise"]

\* faulty variant: after the last failed attempt the batch is given up silently
OnUpsertErrorSwallowed(f) ==
    IF f.attempt < UpsertMaxRetries - 1
    THEN [f EXCEPT !.slept = Append(@, f.retry_delay),
                   !.retry_delay = @ * 2,
                   !.attempt = @ + 1]
    ELSE [f EXCEPT !.pc = "retry_check"]

\* the except branch of one upsert attempt: sleep and go round again, or raise
OnUpsertError(f) ==
    IF f.attempt < UpsertMaxRetries - 1
    THEN [f EXCEPT !.slept = Append(@, f.retry_delay),
                   !.retry_delay = @ * 2,
                   !.attempt = @ + 1]
    ELSE [f EXCEPT !.pc = "raise"]

\* one index.upsert call that fails
UpsertFail ==
    /\ stack # <<>>
    /\ Top.pc = "upsert"
    /\ stack' = SetTop(OnUpsertError([Top EXCEPT !.sent = Append(@, Top.vectors)]))
    /\ UNCHANGED <<chunker, upl, index, emb, passes, q, cls, asm, ing, svc, jtp, lc>>

\* retry_chunks is non-empty: upload_chunks calls itself with it, inside the loop
\* over batches; past the interpreter's recursion limit the call raises
RetryFailedChunks ==
    /\ stack # <<>>
    /\ Top.pc = "retry_check"
    /\ Top.retry_chunks # <<>>
    /\ stack' = IF Len(stack) < RecursionLimit
                THEN Append(SetTop([Top EXCEPT !.pc = "recursing"]),
                            NewFrame(Top.retry_chunks, Top.batch_size))
                ELSE SetTop([Top EXCEPT !.pc = "raise"])
    /\ UNCHANGED <<chunker, upl, index, emb, passes, q, cls, asm, ing, svc, jtp, lc>>

\* retry_chunks is empty: on to the next batch
NextBatch ==
    /\ stack # <<>>
    /\ Top.pc = "retry_check"
    /\ Top.retry_chunks = <<>>
    /\ stack' = SetTop([Top EXCEPT !.i = @ + Top.batch_size, !.pc = "for_batch"])
    /\ UNCHANGED <<chunker, upl, index, emb, passes, q, cls, asm, ing, svc, jtp, lc>>

\* the outer except: the error is wrapped and raised to the activation's caller
PropagateError ==
    /\ stack # <<>>
    /\ Top.pc = "raise"
    /\ IF Len(stack) = 1
       THEN /\ stack' = <<>>
            /\ upl' = [upl EXCEPT !.outcome = "raised"]
       ELSE /\ stack' = [Pop EXCEPT ![Len(stack) - 1] = [@ EXCEPT !.pc = "raise"]]
            /\ upl' = upl
    /\ UNCHANGED <<chunker, index, emb, passes, q, cls, asm, ing, svc, jtp, lc>>

(***************************************************************************)
(* query (services/pinecone_service.py): the retrieval engine.             *)
(***************************************************************************)
QueryMaxRetries == 3
QueryRetryDelay == 1

Scores == 0..MaxScore

\* similarity_threshold is a float the caller chooses: MaxScore + 1 stands for a
\* value above 1 such as 1.01
Thresholds == 0..(MaxScore + 1)

\* what index.query(top_k=n) can answer: at most n matches, best score first
Candidates(n) ==
    UNION {{[k \in 1..len |-> [id |-> k, score |-> s[k]]] :
               s \in {t \in [1..len -> Scores] : \A k \in 1..(len - 1) : t[k] >= t[k + 1]}} :
           len \in 0..n}

\* top_k of the index.query call
RequestedCandidates(top_k) == top_k * 2

\* faulty variant: a candidate whose score equals the threshold is filtered out
QueryResultStrict(matches, top_k, threshold) ==
    LET Pass(m) == m.score > threshold
        filtered_matches == Take(SelectSeq(matches, Pass), top_k)
    IN  [matches |-> filtered_matches,
         total_matches |-> Len(matches),
         filtered_matches |-> Len(filtered_matches)]

\* the threshold filter, the cut to top_k and the returned dict
QueryResult(matches, top_k, threshold) ==
    LET Pass(m) == m.score >= threshold
        filtered_matches == Take(SelectSeq(matches, Pass), top_k)
    IN  [matches |-> filtered_matches,
         total_matches |-> Len(matches),
         filtered_matches |-> Len(filtered_matches)]

\* result holds what the call returned: <<>> while nothing was returned, <<r>> for
\* the dict r; calls counts the index.query calls, failures the failed attempts,
\* embedding_calls the calls to the embedding service of the get_embedding calls
\* that ended, embedding_raised the get_embedding calls that raised
QIdle ==
    [pc |-> "idle", query_text |-> <<>>, top_k |-> 1, similarity_threshold |-> 0,
     attempt |-> 0, retry_delay |-> 0, slept |-> <<>>, calls |-> 0, failures |-> 0,
     embedding_calls |-> 0, embedding_raised |-> 0,
     requested |-> 0, candidates |-> <<>>, result |-> <<>>]

\* a caller calls query(query_text, top_k=..., similarity_threshold=...): the
\* locals at the head of the attempt loop
QueryInputs ==
    {[QIdle EXCEPT !.pc = "for_attempt", !.query_text = <<"query">>, !.top_k = k,
                   !.similarity_threshold = t, !.retry_delay = QueryRetryDelay] :
        k \in 1..MaxTopK, t \in Thresholds}

\* an attempt begins: the query text is handed to get_embedding
QueryCallGetEmbedding ==
    /\ q.pc = "for_attempt"
    /\ emb.pc = "idle"
    /\ emb' = GetEmbeddingCall(q.query_text)
    /\ q' = [q EXCEPT !.pc = "embedding"]
    /\ UNCHANGED <<chunker, upl, stack, index, passes, cls, asm, ing, svc, jtp, lc>>

\* get_embedding returned: index.query is called for twice top_k candidates
QueryEmbedded ==
    /\ q.pc = "embedding"
    /\ emb.pc = "returned"
    /\ q' = [q EXCEPT !.pc = "index_query", !.requested = RequestedCandidates(q.top_k),
                     !.embedding_calls = @ + emb.calls]
    /\ emb' = EmbIdle
    /\ UNCHANGED <<chunker, upl, stack, index, passes, cls, asm, ing, svc, jtp, lc>>

\* faulty variant: the last failure is answered with an empty result
OnQueryErrorDowngraded(r) ==
    IF r.attempt < QueryMaxRetries - 1
    THEN [r EXCEPT !.slept = Append(@, r.retry_delay),
                   !.retry_delay = @ * 2,
                   !.attempt = @ + 1,
                   !.pc = "for_attempt"]
    ELSE [r EXCEPT !.pc = "returned", !.candidates = <<>>,
                   !.result = <<QueryResult(<<>>, r.top_k, r.similarity_threshold)>>]

\* the except branch of one attempt: sleep and go round again, or raise
OnQueryError(r) ==
    IF r.attempt < QueryMaxRetries - 1
    THEN [r EXCEPT !.slept = Append(@, r.retry_delay),
                   !.retry_delay = @ * 2,
                   !.attempt = @ + 1,
                   !.pc = "for_attempt"]
    ELSE [r EXCEPT !.pc = "raised"]

\* get_embedding raised inside the attempt
QueryEmbeddingRaised ==
    /\ q.pc = "embedding"
    /\ emb.pc = "raised"
    /\ q' = OnQueryError([q EXCEPT !.failures = @ + 1,
                                   !.embedding_calls = @ + emb.calls,
                                   !.embedding_raised = @ + 1])
    /\ emb' = EmbIdle
    /\ UNCHANGED <<chunker, upl, stack, index, passes, cls, asm, ing, svc, jtp, lc>>

\* index.query answers: filter, cut and return
IndexQueryOk ==
    /\ q.pc = "index_query"
    /\ \E matches \in Candidates(q.requested) :
          q' = [q EXCEPT !.pc = "returned", !.calls = @ + 1, !.candidates = matches,
                         !.result =
                             <<QueryResult(matches, q.top_k, q.similarity_threshold)>>]
    /\ UNCHANGED <<chunker, upl, stack, index, emb, passes, cls, asm, ing, svc, jtp, lc>>

\* index.query fails
IndexQueryFail ==
    /\ q.pc = "index_query"
    /\ q' = OnQueryError([q EXCEPT !.calls = @ + 1, !.failures = @ + 1])
    /\ UNCHANGED <<chunker, upl, stack, index, emb, passes, cls, asm, ing, svc, jtp, lc>>

(***************************************************************************)
(* analyze_text_category (components/file_upload.py): the classifier.      *)
(* A text is a sequence of tokens; a keyword is a sequence of tokens and   *)
(* "keyword in line" is the substring test.  The tables below are the      *)
(* source's tables restricted to the keywords that can be written with     *)
(* ClsChars, in the source's order and with the source's repetitions.      *)
(* Japanese strings are written in romaji:                                 *)
(*   rekishi 歴史, teki 的, densetsu 伝説, heijitsu 平日, nobori 上り,     *)
(*   bukken 物件, yachin 家賃, chiiki 地域;                                *)
(*   bukken_gaiyou 物件概要, chiiki_tokusei 地域特性・街のプロフィール,    *)
(*   gaiyou_area 概要・エリア区分, kakaku_hiyou 価格・費用,                *)
(*   madori_setsubi 間取り・設備, keiyaku_tetsuzuki 契約・手続き,          *)
(*   koutsuu_access 交通アクセス, machi_no_rekishi 街の歴史・地域史,       *)
(*   shizen_kankyou 自然・環境, kankou_gourmet 観光・グルメ.               *)
(***************************************************************************)
ClsChars ==
    {"rekishi", "teki", "densetsu", "heijitsu", "nobori", "6:02", "JR", "bukken", "yachin",
     "chiiki", "x", " ", NL}

\* keyword in line
Contains(line, keyword) ==
    \E i \in 1..(Len(line) - Len(keyword) + 1) :
        SubSeq(line, i, i + Len(keyword) - 1) = keyword

\* sum(1 for keyword in keywords if keyword in line)
KeywordCount(keywords, line) ==
    Cardinality({i \in 1..Len(keywords) : Contains(line, keywords[i])})

\* the keys of category_scores and of subcategory_scores, in insertion order
main_categories == <<"bukken_gaiyou", "chiiki_tokusei">>

subcategories(main) ==
    IF main = "bukken_gaiyou"
    THEN <<"gaiyou_area", "kakaku_hiyou", "madori_setsubi", "keiyaku_tetsuzuki">>
    ELSE <<"gaiyou_area", "koutsuu_access", "machi_no_rekishi", "shizen_kankyou",
           "kankou_gourmet">>

Range(f) == {f[x] : x \in DOMAIN f}

\* the (main category, subcategory) pairs of subcategory_scores
ScorePairs ==
    UNION {{<<main, sub>> : sub \in Range(subcategories(main))} :
              main \in Range(main_categories)}

timetable_keywords == << <<"nobori">>, <<"heijitsu">> >>

history_culture_keywords ==
    << <<"rekishi">>, <<"densetsu">>, <<"densetsu">>, <<"rekishi", "teki">> >>

keyword_mapping(main, sub) ==
    CASE <<main, sub>> = <<"bukken_gaiyou", "gaiyou_area">> -> << <<"bukken">>, <<"chiiki">> >>
      [] <<main, sub>> = <<"bukken_gaiyou", "kakaku_hiyou">> -> << <<"yachin">> >>
      [] <<main, sub>> = <<"chiiki_tokusei", "gaiyou_area">> -> << <<"chiiki">> >>
      [] <<main, sub>> = <<"chiiki_tokusei", "koutsuu_access">> ->
             << <<"JR">> >> \o timetable_keywords
      [] <<main, sub>> = <<"chiiki_tokusei", "machi_no_rekishi">> -> history_culture_keywords
      [] OTHER -> <<>>

\* the patterns a line can match with ClsChars: ^\d{1,2}:\d{2}$, the whole line a time;
\* nobori|kudari; heijitsu|dokyuujitsu.  re.search finds the last two anywhere.
timetable_patterns ==
    {[kind |-> "whole_line", text |-> <<"6:02">>],
     [kind |-> "anywhere", text |-> <<"nobori">>],
     [kind |-> "anywhere", text |-> <<"heijitsu">>]}

\* re.search(pattern, line)
Search(pattern, line) ==
    IF pattern.kind = "whole_line" THEN line = pattern.text ELSE Contains(line, pattern.text)

\* sum(1 for pattern in timetable_patterns if re.search(pattern, line))
PatternMatches(line) == Cardinality({p \in timetable_patterns : Search(p, line)})

\* any(keyword in line for keyword in timetable_keywords)
HasTimetableKeyword(line) == KeywordCount(timetable_keywords, line) > 0

ZeroScores ==
    [category_scores |-> [main \in Range(main_categories) |-> 0],
     subcategory_scores |-> [p \in ScorePairs |-> 0],
     is_timetable |-> FALSE,
     flagged_by |-> {}]      \* history: the lines that set is_timetable

\* faulty variant: only the subcategory's score is raised
AddScoreSubOnly(s, main, sub, n) == [s EXCEPT !.subcategory_scores[<<main, sub>>] = @ + n]

\* category_scores[main] += n and subcategory_scores[main][sub] += n
AddScore(s, main, sub, n) ==
    [s EXCEPT !.category_scores[main] = @ + n, !.subcategory_scores[<<main, sub>>] = @ + n]

\* faulty variant: one matching pattern sets the timetable flag
OnePatternSuffices(line) == PatternMatches(line) >= 1

\* line 293: the timetable flag needs two matching patterns
TimetablePatternsMatch(line) == PatternMatches(line) >= 2

\* lines 290-297: a line with a timetable keyword, then continue
TimetableLine(s, line) ==
    IF TimetablePatternsMatch(line)
    THEN [AddScore(s, "chiiki_tokusei", "koutsuu_access", 3) EXCEPT
              !.is_timetable = TRUE, !.flagged_by = @ \cup {line}]
    ELSE s

\* lines 300-307: the two nested loops over keyword_mapping, from pair n on
RECURSIVE GenericLoop(_, _, _, _)
GenericLoop(s, line, pairs, n) ==
    IF n > Len(pairs) THEN s
    ELSE LET main == pairs[n][1]
             sub == pairs[n][2]
             keyword_count == KeywordCount(keyword_mapping(main, sub), line)
             weight == IF sub = "machi_no_rekishi" THEN 2 ELSE 1
         IN  GenericLoop(IF keyword_count > 0 THEN AddScore(s, main, sub, keyword_count * weight)
                         ELSE s,
                         line, pairs, n + 1)

\* keyword_mapping's pairs in iteration order
RECURSIVE PairsFrom(_)
PairsFrom(mains) ==
    IF mains = <<>> THEN <<>>
    ELSE [k \in 1..Len(subcategories(Head(mains))) |->
              <<Head(mains), subcategories(Head(mains))[k]>>] \o PairsFrom(Tail(mains))

GenericLine(s, line) == GenericLoop(s, line, PairsFrom(main_categories), 1)

\* faulty variant: a history line is also scored generically
HistoryCultureLineLeaking(s, line) ==
    GenericLine(AddScore(s, "chiiki_tokusei", "machi_no_rekishi",
                         KeywordCount(history_culture_keywords, line) * 2), line)

\* lines 284-287: the line's weight goes to the history subcategory, then continue
HistoryCultureLine(s, line) ==
    AddScore(s, "chiiki_tokusei", "machi_no_rekishi",
             KeywordCount(history_culture_keywords, line) * 2)

\* lines 278-307: the body of the loop over lines
ProcessLine(s, raw) ==
    LET line == Strip(raw)
    IN  IF line = <<>> THEN s
        ELSE IF KeywordCount(history_culture_keywords, line) > 0 THEN HistoryCultureLine(s, line)
        ELSE IF HasTimetableKeyword(line) THEN TimetableLine(s, line)
        ELSE GenericLine(s, line)

\* faulty variant: a history score equal to the transit score is enough
HistoryAtLeast(history, transit) == history >= transit

\* line 310: the history score outweighs the transit score
HistoryOutweighs(history, transit) == history > transit

\* max(items, key=score)[0]: the first key of the greatest score
ArgMaxFirst(keys, score) ==
    keys[CHOOSE i \in 1..Len(keys) :
            /\ \A j \in 1..Len(keys) : score[keys[j]] <= score[keys[i]]
            /\ \A j \in 1..(i - 1) : score[keys[j]] < score[keys[i]]]

\* sum(category_scores.values())
RECURSIVE SumScores(_, _)
SumScores(keys, score) ==
    IF keys = <<>> THEN 0 ELSE score[Head(keys)] + SumScores(Tail(keys), score)

\* a float as a fraction: 0.0 is 0/1, 0.9 is 9/10
Fraction(num, den) == [num |-> num, den |-> den]

\* faulty variant: a total of zero is not special-cased
ConfidenceOfUnguarded(score, total_score) == Fraction(score, total_score)

\* lines 326-331
ConfidenceOf(score, total_score) ==
    IF total_score = 0 THEN Fraction(0, 1) ELSE Fraction(score, total_score)

\* faulty variant: the timetable return reports full confidence
TimetableResultCertain ==
    [main_category |-> "chiiki_tokusei", sub_category |-> "koutsuu_access",
     confidence_score |-> Fraction(1, 1)]

\* lines 314-319
TimetableResult ==
    [main_category |-> "chiiki_tokusei", sub_category |-> "koutsuu_access",
     confidence_score |-> Fraction(9, 10)]

\* lines 322-337
ScoringResult(s) ==
    LET main_category == ArgMaxFirst(main_categories, s.category_scores)
        subcategory ==
            ArgMaxFirst(subcategories(main_category),
                        [sub \in Range(subcategories(main_category)) |->
                             s.subcategory_scores[<<main_category, sub>>]])
        total_score == SumScores(main_categories, s.category_scores)
    IN  [main_category |-> main_category, sub_category |-> subcategory,
         confidence_score |-> ConfidenceOf(s.category_scores[main_category], total_score)]

\* lines 310-311: the flag after the comparison of the two subcategory scores
TimetableAfterCheck(s) ==
    IF s.is_timetable
       /\ HistoryOutweighs(s.subcategory_scores[<<"chiiki_tokusei", "machi_no_rekishi">>],
                           s.subcategory_scores[<<"chiiki_tokusei", "koutsuu_access">>])
    THEN FALSE ELSE s.is_timetable

ClsIdle ==
    [pc |-> "idle", text |-> <<>>, lines |-> <<>>, k |-> 1, locals |-> ZeroScores,
     result |-> <<>>]

\* the lines the texts of the model are made of
ClsLines ==
    {<<"x">>, <<" ">>, <<"rekishi", "teki">>, <<"densetsu", "rekishi">>,
     <<"rekishi", "bukken">>, <<"rekishi", "heijitsu", "nobori">>,
     <<"heijitsu", "nobori">>, <<"heijitsu">>, <<"6:02">>, <<" ", "JR">>,
     <<"bukken", "yachin">>, <<"chiiki">>}

ClsTexts == {Join(ls) : ls \in UNION {[1..n -> ClsLines] : n \in 0..MaxLines}}

\* analyze_text_category(text) entered: lines = text.split('\n'), scores zero
ClsInputs ==
    {[ClsIdle EXCEPT !.pc = "for_line", !.text = t, !.lines = SplitLines(t)] : t \in ClsTexts}

\* one iteration of the loop over lines
AnalyzeLine ==
    /\ cls.pc = "for_line"
    /\ cls.k <= Len(cls.lines)
    /\ cls' = [cls EXCEPT
                 !.locals = ProcessLine(cls.locals, cls.lines[cls.k]),
                 !.k = @ + 1]
    /\ UNCHANGED <<chunker, upl, stack, index, emb, passes, q, asm, ing, svc, jtp, lc>>

\* the loop is over: lines 310-337
AnalyzeReturn ==
    /\ cls.pc = "for_line"
    /\ cls.k > Len(cls.lines)
    /\ LET is_timetable == TimetableAfterCheck(cls.locals)
       IN  cls' = [cls EXCEPT
                     !.pc = "returned",
                     !.locals.is_timetable = is_timetable,
                     !.result = <<IF is_timetable THEN TimetableResult
                                  ELSE ScoringResult(cls.locals)>>]
    /\ UNCHANGED <<chunker, upl, stack, index, emb, passes, q, asm, ing, svc, jtp, lc>>

analyze_text_category(text) ==
    LET RECURSIVE Loop(_, _)
        Loop(s, lines) == IF lines = <<>> THEN s ELSE Loop(ProcessLine(s, Head(lines)), Tail(lines))
        s == Loop(ZeroScores, SplitLines(text))
    IN  IF TimetableAfterCheck(s) THEN TimetableResult ELSE ScoringResult(s)
(***************************************************************************)
(* process_text_file (components/file_upload.py): the metadata assembler.  *)
(* An f-string of several parts is the sequence of its parts.              *)
(***************************************************************************)
\* chunk_size is st.session_state's chunk size, which split_text_into_chunks reads
\* when it is called without max_chunk_size; now is datetime.now()
process_text_file(file_content, metadata, chunk_size, now) ==
    LET chunks == split_text_into_chunks(file_content, chunk_size)
    IN  [k \in 1..Len(chunks) |->
            LET i == k - 1
                category_analysis == analyze_text_category(chunks[k])
                chunk_id == Get(metadata, "id", <<"chunk">>) \o <<i>>
            IN  [id |-> chunk_id,
                 text |-> chunks[k],
                 metadata |->
                     [id |-> chunk_id,
                      chunk_id |-> chunk_id,
                      filename |-> Get(metadata, "filename", ""),
                      main_category |-> category_analysis.main_category,
                      sub_category |-> category_analysis.sub_category,
                      confidence_score |-> category_analysis.confidence_score,
                      city |-> Get(metadata, "municipality", ""),
                      source |-> Get(metadata, "source", ""),
                      created_date |-> Get(metadata, "creation_date", ""),
                      upload_date |-> Get(metadata, "upload_date", now)]]]

AsmIdle ==
    [pc |-> "idle", file_content |-> <<>>, metadata |-> <<>>, chunk_size |-> 1, now |-> 0,
     result |-> <<>>]

\* the lines the file contents of the model are made of
AsmLines == {<<"x">>, <<"heijitsu", "nobori">>, <<"rekishi", "teki">>}

AsmTexts == {Join(ls) : ls \in UNION {[1..n -> AsmLines] : n \in 0..MaxLines}}

\* the metadata render_file_upload passes (lines 442-449)
FullMetadata ==
    [id |-> <<"doc.txt", 0>>, municipality |-> "city", source |-> "source",
     creation_date |-> "created", upload_date |-> "uploaded", filename |-> "doc.txt"]

\* a caller's metadata dict: any of the keys may be absent
Metadatas == {[key \in keys |-> FullMetadata[key]] : keys \in SUBSET DOMAIN FullMetadata}

AsmInputs ==
    {[AsmIdle EXCEPT !.pc = "called", !.file_content = t, !.metadata = m, !.chunk_size = c] :
        t \in AsmTexts, m \in Metadatas, c \in 1..MaxChunkSize}

\* process_text_file has no raise of its own: the call returns the records
ProcessTextFile ==
    /\ asm.pc = "called"
    /\ asm' = [asm EXCEPT
                 !.pc = "returned",
                 !.result = process_text_file(asm.file_content, asm.metadata,
                                              asm.chunk_size, asm.now)]
    /\ UNCHANGED <<chunker, upl, stack, index, emb, passes, q, cls, ing, svc, jtp, lc>>
(***************************************************************************)
(* render_file_upload (components/file_upload.py): the upload page with a  *)
(* text file in the uploader.                                              *)
(***************************************************************************)
BATCH_SIZE == 100

IngIdle ==
    [pc |-> "idle", name |-> "", file_content |-> <<>>, city |-> "", source |-> "",
     chunk_size |-> 1, clock |-> 0, saves |-> 0, emitted |-> <<>>, errors |-> 0]

\* what read_file_content can give for the uploaded file
IngContents == {<<"x">>, Join(<<<<"heijitsu", "nobori">>, <<"rekishi", "teki">>>>)}

\* the page shows an uploaded text file and the metadata form; "" is a field left empty
IngInputs ==
    {[IngIdle EXCEPT !.pc = "page", !.name = "doc.txt", !.file_content = t, !.city = c,
                     !.source = s, !.chunk_size = n] :
        t \in IngContents, c \in {"", "city"}, s \in {"", "source"}, n \in 1..MaxChunkSize}

\* a second passes between two clicks
Tick ==
    /\ ing.pc = "page"
    /\ stack = <<>>
    /\ ing.clock < MaxClock
    /\ ing' = [ing EXCEPT !.clock = @ + 1]
    /\ UNCHANGED <<chunker, upl, stack, index, emb, passes, q, cls, asm, svc, jtp, lc>>

\* the save button of the text branch (lines 432-459), up to the entry into
\* upload_chunks(chunks), whose steps are the actions of the upload section
SaveToDatabase ==
    /\ ing.pc = "page"
    /\ stack = <<>>
    /\ upl.outcome # "running"
    /\ ing.saves < MaxSaves
    /\ IF ing.city = "" \/ ing.source = ""
       THEN /\ ing' = [ing EXCEPT !.saves = @ + 1, !.errors = @ + 1]
            /\ UNCHANGED <<upl, stack, passes, jtp, lc>>
       ELSE LET file_id == <<ing.name, ing.clock>>
                chunks == process_text_file(ing.file_content,
                              [id |-> file_id, municipality |-> ing.city,
                               source |-> ing.source, creation_date |-> ing.clock,
                               upload_date |-> ing.clock, filename |-> ing.name],
                              ing.chunk_size, ing.clock)
            IN  /\ ing' = [ing EXCEPT !.saves = @ + 1, !.emitted = Append(@, chunks)]
                /\ passes' = [c \in {chunks[k].id : k \in 1..Len(chunks)} |-> 0]
                /\ upl' = [chunks |-> chunks, batch_size |-> BATCH_SIZE,
                           callNo |-> upl.callNo + 1,
                           outcome |-> IF chunks = <<>> THEN "returned" ELSE "running",
                           result |-> None]
                /\ stack' = IF chunks = <<>> THEN <<>> ELSE <<NewFrame(chunks, BATCH_SIZE)>>
    /\ UNCHANGED <<chunker, index, emb, q, cls, asm, svc, jtp, lc>>
(***************************************************************************)
(* PineconeService.__init__ and _initialize_index                          *)
(* (services/pinecone_service.py): the construction of the service.        *)
(***************************************************************************)
InitMaxRetries == 3
InitRetryDelay == 2
CreateWait == 10

\* dimension=1536 of create_index: the length of the embedding model's vectors
EmbeddingDimension == 1536

\* the dimensions an index of the account can have been created with
Dimensions == {EmbeddingDimension, EmbeddingDimension \div 2, EmbeddingDimension * 2}

\* remote is the index of name PINECONE_INDEX_NAME in the account: <<>> when there
\* is none, <<d>> when it exists with dimension d
SvcIdle ==
    [pc |-> "idle", openai_key |-> FALSE, pinecone_key |-> FALSE, index_name |-> FALSE,
     remote |-> <<>>, attempt |-> 0, retry_delay |-> 0, slept |-> <<>>,
     connected |-> FALSE, dimension |-> <<>>]

\* PineconeService() is called: the three settings are set or not
SvcInputs ==
    {[SvcIdle EXCEPT !.pc = "init", !.openai_key = o, !.pinecone_key = p, !.index_name = n,
                     !.remote = r] :
        o \in BOOLEAN, p \in BOOLEAN, n \in BOOLEAN,
        r \in {<<>>} \cup {<<d>> : d \in Dimensions}}

\* lines 19-31: the settings are checked and the clients are made
CheckSettings ==
    /\ svc.pc = "init"
    /\ svc' = IF svc.openai_key /\ svc.pinecone_key /\ svc.index_name
              THEN [svc EXCEPT !.pc = "for_attempt", !.attempt = 0,
                               !.retry_delay = InitRetryDelay]
              ELSE [svc EXCEPT !.pc = "raised"]
    /\ UNCHANGED <<chunker, upl, stack, index, emb, passes, q, cls, asm, ing, jtp, lc>>

\* lines 50-78: an attempt of _initialize_index in which no call raises
InitializeAttemptOk ==
    /\ svc.pc = "for_attempt"
    /\ svc' = [svc EXCEPT
                 !.remote = IF @ = <<>> THEN <<EmbeddingDimension>> ELSE @,
                 !.slept = IF svc.remote = <<>> THEN Append(@, CreateWait) ELSE @,
                 !.connected = TRUE,
                 !.pc = "describe"]
    /\ UNCHANGED <<chunker, upl, stack, index, emb, passes, q, cls, asm, ing, jtp, lc>>

\* lines 80-87
OnInitializeError(r) ==
    IF r.attempt < InitMaxRetries - 1
    THEN [r EXCEPT !.slept = Append(@, r.retry_delay), !.retry_delay = @ * 2,
                   !.attempt = @ + 1]
    ELSE [r EXCEPT !.pc = "raised"]

\* an attempt in which a call raises: list_indexes or create_index (nothing is
\* created), or a call after create_index returned (Index, describe_index_stats)
InitializeAttemptFail ==
    /\ svc.pc = "for_attempt"
    /\ \E created \in BOOLEAN, got_index \in BOOLEAN :
           /\ created => svc.remote = <<>>
           /\ svc' = OnInitializeError(
                         [svc EXCEPT
                            !.remote = IF created THEN <<EmbeddingDimension>> ELSE @,
                            !.slept = IF created THEN Append(@, CreateWait) ELSE @,
                            !.connected = @ \/ got_index])
    /\ UNCHANGED <<chunker, upl, stack, index, emb, passes, q, cls, asm, ing, jtp, lc>>

\* lines 37-38: self.dimension = stats.dimension; the service is constructed
DescribeStatsOk ==
    /\ svc.pc = "describe"
    /\ svc' = [svc EXCEPT !.dimension = svc.remote, !.pc = "ready"]
    /\ UNCHANGED <<chunker, upl, stack, index, emb, passes, q, cls, asm, ing, jtp, lc>>

\* describe_index_stats raises: line 41 re-raises
DescribeStatsFail ==
    /\ svc.pc = "describe"
    /\ svc' = [svc EXCEPT !.pc = "raised"]
    /\ UNCHANGED <<chunker, upl, stack, index, emb, passes, q, cls, asm, ing, jtp, lc>>

(***************************************************************************)
(* JapaneseTextProcessor (utils/text_processing.py): the sentence-based    *)
(* chunker.  The tokenizer is taken to give one token per character.       *)
(***************************************************************************)
\* the sentence-ending tokens that can be written here ('!', '?'; the source's
\* list also has the full-width marks)
Terminators == {"!", "?"}

SentenceChars == {"a", "b", "!", " "}

SentenceTexts == UNION {[1..n -> SentenceChars] : n \in 0..MaxTextLen}

\* split_into_sentences: the loop over tokens from token k on
RECURSIVE SentenceLoop(_, _, _, _)
SentenceLoop(tokens, k, sentences, current_sentence) ==
    IF k > Len(tokens)
    THEN IF current_sentence # <<>> THEN Append(sentences, current_sentence) ELSE sentences
    ELSE IF tokens[k] \in Terminators
    THEN SentenceLoop(tokens, k + 1, Append(sentences, Append(current_sentence, tokens[k])),
                      <<>>)
    ELSE SentenceLoop(tokens, k + 1, sentences, Append(current_sentence, tokens[k]))

split_into_sentences(text) == SentenceLoop(text, 1, <<>>, <<>>)

\* a chunk dict of process_text_file; the id f"{filename}_chunk_{chunk_id}" is the
\* sequence of its parts
SentenceChunk(filename, chunk_id, text) ==
    [id |-> <<filename, "chunk", chunk_id>>, text |-> text,
     metadata |-> [filename |-> filename, chunk_id |-> chunk_id]]

\* lines 66-75: the slices of an over-long sentence, from offset i on
RECURSIVE ForceSplit(_, _, _, _, _)
ForceSplit(sentence, i, chunk_size, filename, chunk_id) ==
    IF i >= Len(sentence) THEN <<>>
    ELSE <<SentenceChunk(filename, chunk_id, Slice(sentence, i, i + chunk_size))>>
         \o ForceSplit(sentence, i + chunk_size, chunk_size, filename, chunk_id)

\* faulty variant: the separator is not counted
LengthWithSentenceOnly(current_length, sentence_size) == current_length + sentence_size

\* line 47: current_length += sentence_size + 1
LengthWithSentence(current_length, sentence_size) == current_length + sentence_size + 1

\* lines 42-81: the loop over sentences from sentence k on, with the loop's locals
RECURSIVE JtpLoop(_, _, _, _, _, _, _, _)
JtpLoop(sentences, k, chunks, current_chunk, current_length, chunk_id, filename, chunk_size) ==
    IF k > Len(sentences)
    THEN IF current_chunk # <<>>
         THEN Append(chunks, SentenceChunk(filename, chunk_id, Strip(current_chunk)))
         ELSE chunks
    ELSE LET sentence == sentences[k]
             sentence_size == Len(sentence)
         IN  IF current_length + sentence_size <= chunk_size
             THEN JtpLoop(sentences, k + 1, chunks, current_chunk \o sentence \o <<NL>>,
                          LengthWithSentence(current_length, sentence_size), chunk_id,
                          filename, chunk_size)
             ELSE LET flushed == current_chunk # <<>>
                      chunks1 == IF flushed
                                 THEN Append(chunks, SentenceChunk(filename, chunk_id,
                                                                   Strip(current_chunk)))
                                 ELSE chunks
                      chunk_id1 == IF flushed THEN chunk_id + 1 ELSE chunk_id
                  IN  IF sentence_size > chunk_size
                      THEN JtpLoop(sentences, k + 1,
                                   chunks1 \o ForceSplit(sentence, 0, chunk_size, filename,
                                                         chunk_id1),
                                   <<>>, 0, chunk_id1, filename, chunk_size)
                      ELSE JtpLoop(sentences, k + 1, chunks1, sentence \o <<NL>>,
                                   sentence_size + 1, chunk_id1, filename, chunk_size)

JapaneseProcessTextFile(file_content, filename, chunk_size) ==
    JtpLoop(split_into_sentences(file_content), 1, <<>>, <<>>, 0, 0, filename, chunk_size)

JtpIdle == [pc |-> "idle", file_content |-> <<>>, filename |-> "", chunk_size |-> 1,
            result |-> <<>>]

JtpInputs ==
    {[JtpIdle EXCEPT !.pc = "called", !.file_content = t, !.filename = "doc.txt",
                     !.chunk_size = c] :
        t \in SentenceTexts, c \in 1..MaxChunkSize}

ProcessSentences ==
    /\ jtp.pc = "called"
    /\ jtp' = [jtp EXCEPT
                 !.pc = "returned",
                 !.result = JapaneseProcessTextFile(jtp.file_content, jtp.filename,
                                                    jtp.chunk_size)]
    /\ UNCHANGED <<chunker, upl, stack, index, emb, passes, q, cls, asm, ing, svc, lc>>

(***************************************************************************)
(* LangChainService.get_relevant_context (services/langchain_service.py).  *)
(* Keys of the search details: score = "スコア", text = "テキスト",         *)
(* metadata = "メタデータ", judgement = "類似度判断", threshold = "閾値",   *)
(* at_least = "閾値以上", score_detail = "スコア詳細", process = "理解過程", *)
(* query = "クエリ", calculation = "類似度計算"; the words "ijou" and      *)
(* "miman" stand for "以上" and "未満".                                     *)
(***************************************************************************)
SIMILARITY_THRESHOLD == Fraction(7, 10)

PreviewLength == 100
ScoreDigits == 4

\* doc[1] >= SIMILARITY_THRESHOLD for a score of score / MaxScore
AtLeastThreshold(score) ==
    score * SIMILARITY_THRESHOLD.den >= SIMILARITY_THRESHOLD.num * MaxScore

\* round(doc[1], 4); no score of the model lies halfway between two roundings
Round(score, digits) ==
    Fraction((2 * score * 10^digits + MaxScore) \div (2 * MaxScore), 10^digits)

\* the stored documents: the k-th document has a body of k characters
RECURSIVE Body(_)
Body(k) == IF k = 0 THEN <<>> ELSE <<"d">> \o Body(k - 1)

\* a metadata dict as its items in order; is_str tells a str value from another one
LcMetadatas ==
    {<<>>,
     <<[key |-> <<"n">>, value |-> <<"1">>, is_str |-> FALSE]>>,
     <<[key |-> <<"n">>, value |-> <<"1">>, is_str |-> FALSE],
       [key |-> <<"k">>, value |-> <<"v">>, is_str |-> TRUE]>>}

\* what similarity_search_with_score(query, k=n) can answer: at most n pairs of a
\* document and its score
Docs(n, metadata) ==
    UNION {{[k \in 1..len |-> [doc |-> [page_content |-> Body(k), metadata |-> metadata],
                               score |-> sc[k]]] :
               sc \in [1..len -> Scores]} :
           len \in 0..n}

\* the str items of the metadata as lines "key: value"
RECURSIVE MetadataText(_)
MetadataText(items) ==
    IF items = <<>> THEN <<>>
    ELSE (IF Head(items).is_str
          THEN <<Head(items).key \o <<":", " ">> \o Head(items).value>>
          ELSE <<>>) \o MetadataText(Tail(items))

\* the loop that puts the metadata lines in front of page_content
WithMetadataText(d) ==
    LET metadata_text == MetadataText(d.doc.metadata)
    IN  IF metadata_text # <<>>
        THEN [d EXCEPT !.doc.page_content = Join(metadata_text) \o <<NL, NL>> \o @]
        ELSE d

\* faulty variant: an empty filter result is kept
FilteredDocsNoFallback(docs, top_k) ==
    LET Pass(d) == AtLeastThreshold(d.score)
    IN  Take(SelectSeq(docs, Pass), top_k)

\* the threshold filter, the cut to top_k and the fallback to docs[:top_k]
FilteredDocs(docs, top_k) ==
    LET Pass(d) == AtLeastThreshold(d.score)
        filtered_docs == Take(SelectSeq(docs, Pass), top_k)
    IN  IF filtered_docs = <<>> /\ docs # <<>> THEN Take(docs, top_k) ELSE filtered_docs

\* one entry of search_details
SearchDetail(d, query) ==
    [score |-> Round(d.score, ScoreDigits),
     text |-> Take(d.doc.page_content, PreviewLength) \o <<".", ".", ".">>,
     metadata |-> d.doc.metadata,
     judgement |->
         [threshold |-> SIMILARITY_THRESHOLD,
          at_least |-> AtLeastThreshold(d.score),
          score_detail |-> <<"score", Round(d.score, ScoreDigits), "threshold",
                             SIMILARITY_THRESHOLD,
                             IF AtLeastThreshold(d.score) THEN "ijou" ELSE "miman">>,
          process |-> [query |-> query,
                       text |-> d.doc.page_content,
                       calculation |-> [score |-> Round(d.score, ScoreDigits)]]]]

\* the part of get_relevant_context after the search
RelevantContext(found, query, top_k) ==
    LET docs == [k \in 1..Len(found) |-> WithMetadataText(found[k])]
        filtered_docs == FilteredDocs(docs, top_k)
    IN  [context_text |->
             Join([k \in 1..Len(filtered_docs) |-> filtered_docs[k].doc.page_content]),
         search_details |->
             [k \in 1..Len(filtered_docs) |-> SearchDetail(filtered_docs[k], query)]]

\* docs holds what the index answered; result is <<>> while nothing was returned
LcIdle ==
    [pc |-> "idle", query |-> <<>>, top_k |-> 1, metadata |-> <<>>, docs |-> <<>>,
     result |-> <<>>]

LcInputs ==
    {[LcIdle EXCEPT !.pc = "embed_query", !.query = qt, !.top_k = k, !.metadata = m] :
        qt \in {<<"a">>, <<"a", "b">>}, k \in 0..MaxTopK, m \in LcMetadatas}

\* self.embeddings.embed_query(query) answers
EmbedQueryOk ==
    /\ lc.pc = "embed_query"
    /\ lc' = [lc EXCEPT !.pc = "search"]
    /\ UNCHANGED <<chunker, upl, stack, index, emb, passes, q, cls, asm, ing, svc, jtp>>

\* self.embeddings.embed_query(query) raises: nothing catches it
EmbedQueryFail ==
    /\ lc.pc = "embed_query"
    /\ lc' = [lc EXCEPT !.pc = "raised"]
    /\ UNCHANGED <<chunker, upl, stack, index, emb, passes, q, cls, asm, ing, svc, jtp>>

\* similarity_search_with_score answers and the rest of the method runs
SimilaritySearchOk ==
    /\ lc.pc = "search"
    /\ \E found \in Docs(lc.top_k * 2, lc.metadata) :
          lc' = [lc EXCEPT !.pc = "returned",
                           !.docs = found,
                           !.result = <<RelevantContext(found, lc.query, lc.top_k)>>]
    /\ UNCHANGED <<chunker, upl, stack, index, emb, passes, q, cls, asm, ing, svc, jtp>>

\* similarity_search_with_score raises: nothing catches it
SimilaritySearchFail ==
    /\ lc.pc = "search"
    /\ lc' = [lc EXCEPT !.pc = "raised"]
    /\ UNCHANGED <<chunker, upl, stack, index, emb, passes, q, cls, asm, ing, svc, jtp>>

(***************************************************************************)
(* Specifications.                                                         *)
(***************************************************************************)
InitChunk ==
    /\ chunker \in ChunkerInputs
    /\ upl = [chunks |-> <<>>, batch_size |-> 1, callNo |-> 0,
              outcome |-> "off", result |-> None]
    /\ stack = <<>>
    /\ index = EmptyBag
    /\ emb = EmbIdle
    /\ passes = [c \in ChunkIds |-> 0]
    /\ q = QIdle
    /\ cls = ClsIdle
    /\ asm = AsmIdle
    /\ ing = IngIdle
    /\ svc = SvcIdle
    /\ jtp = JtpIdle
    /\ lc = LcIdle

NextChunk == SplitTextIntoChunks

SpecChunk == InitChunk /\ [][NextChunk]_vars

Init ==
    /\ chunker = ChunkerIdle
    /\ upl \in UploadInputs
    /\ stack = <<>>
    /\ index = EmptyBag
    /\ emb = EmbIdle
    /\ passes = [c \in ChunkIds |-> 0]
    /\ q = QIdle
    /\ cls = ClsIdle
    /\ asm = AsmIdle
    /\ ing = IngIdle
    /\ svc = SvcIdle
    /\ jtp = JtpIdle
    /\ lc = LcIdle

Next ==
    \/ UploadChunks
    \/ StartBatch
    \/ UploadComplete
    \/ CallGetEmbedding
    \/ EmbeddingAttemptOk
    \/ EmbeddingAttemptFail
    \/ ChunkEmbedded
    \/ ChunkFailed
    \/ BatchEmbedded
    \/ UpsertOk
    \/ UpsertFail
    \/ RetryFailedChunks
    \/ NextBatch
    \/ PropagateError

Spec == Init /\ [][Next]_vars

\* one call of upload_chunks on an empty index, no call after it; the program is
\* one thread that always takes its next step
InitOneCall ==
    /\ chunker = ChunkerIdle
    /\ upl \in {[u EXCEPT !.callNo = MaxCalls - 1] : u \in UploadInputs}
    /\ stack = <<>>
    /\ index = EmptyBag
    /\ emb = EmbIdle
    /\ passes = [c \in ChunkIds |-> 0]
    /\ q = QIdle
    /\ cls = ClsIdle
    /\ asm = AsmIdle
    /\ ing = IngIdle
    /\ svc = SvcIdle
    /\ jtp = JtpIdle
    /\ lc = LcIdle

FairSpec == InitOneCall /\ [][Next]_vars /\ WF_vars(Next)

UploadOff ==
    [chunks |-> <<>>, batch_size |-> 1, callNo |-> 0, outcome |-> "off", result |-> None]

InitQuery ==
    /\ chunker = ChunkerIdle
    /\ upl = UploadOff
    /\ stack = <<>>
    /\ index = EmptyBag
    /\ emb = EmbIdle
    /\ passes = [c \in ChunkIds |-> 0]
    /\ q \in QueryInputs
    /\ cls = ClsIdle
    /\ asm = AsmIdle
    /\ ing = IngIdle
    /\ svc = SvcIdle
    /\ jtp = JtpIdle
    /\ lc = LcIdle

NextQuery ==
    \/ QueryCallGetEmbedding
    \/ EmbeddingAttemptOk
    \/ EmbeddingAttemptFail
    \/ QueryEmbedded
    \/ QueryEmbeddingRaised
    \/ IndexQueryOk
    \/ IndexQueryFail

SpecQuery == InitQuery /\ [][NextQuery]_vars

\* the classifier alone, on every text of ClsTexts
InitClassify ==
    /\ chunker = ChunkerIdle
    /\ upl = UploadOff
    /\ stack = <<>>
    /\ index = EmptyBag
    /\ emb = EmbIdle
    /\ passes = [c \in ChunkIds |-> 0]
    /\ q = QIdle
    /\ cls \in ClsInputs
    /\ asm = AsmIdle
    /\ ing = IngIdle
    /\ svc = SvcIdle
    /\ jtp = JtpIdle
    /\ lc = LcIdle

NextClassify == AnalyzeLine \/ AnalyzeReturn

SpecClassify == InitClassify /\ [][NextClassify]_vars

\* the assembler alone, on every text of AsmTexts and every metadata dict
InitAssemble ==
    /\ chunker = ChunkerIdle
    /\ upl = UploadOff
    /\ stack = <<>>
    /\ index = EmptyBag
    /\ emb = EmbIdle
    /\ passes = [c \in ChunkIds |-> 0]
    /\ q = QIdle
    /\ cls = ClsIdle
    /\ asm \in AsmInputs
    /\ ing = IngIdle
    /\ svc = SvcIdle
    /\ jtp = JtpIdle
    /\ lc = LcIdle

NextAssemble == ProcessTextFile

SpecAssemble == InitAssemble /\ [][NextAssemble]_vars

\* the upload page: saves of one text file, each running upload_chunks to its end
InitIngest ==
    /\ chunker = ChunkerIdle
    /\ upl = [chunks |-> <<>>, batch_size |-> BATCH_SIZE, callNo |-> 0, outcome |-> "idle",
              result |-> None]
    /\ stack = <<>>
    /\ index = EmptyBag
    /\ emb = EmbIdle
    /\ passes = <<>>
    /\ q = QIdle
    /\ cls = ClsIdle
    /\ asm = AsmIdle
    /\ ing \in IngInputs
    /\ svc = SvcIdle
    /\ jtp = JtpIdle
    /\ lc = LcIdle

NextIngest ==
    \/ Tick
    \/ SaveToDatabase
    \/ StartBatch
    \/ UploadComplete
    \/ CallGetEmbedding
    \/ EmbeddingAttemptOk
    \/ EmbeddingAttemptFail
    \/ ChunkEmbedded
    \/ ChunkFailed
    \/ BatchEmbedded
    \/ UpsertOk
    \/ UpsertFail
    \/ RetryFailedChunks
    \/ NextBatch
    \/ PropagateError

SpecIngest == InitIngest /\ [][NextIngest]_vars

\* the construction of the service
InitService ==
    /\ chunker = ChunkerIdle
    /\ upl = UploadOff
    /\ stack = <<>>
    /\ index = EmptyBag
    /\ emb = EmbIdle
    /\ passes = [c \in ChunkIds |-> 0]
    /\ q = QIdle
    /\ cls = ClsIdle
    /\ asm = AsmIdle
    /\ ing = IngIdle
    /\ svc \in SvcInputs
    /\ jtp = JtpIdle
    /\ lc = LcIdle

NextService ==
    \/ CheckSettings
    \/ InitializeAttemptOk
    \/ InitializeAttemptFail
    \/ DescribeStatsOk
    \/ DescribeStatsFail

SpecService == InitService /\ [][NextService]_vars

\* the sentence-based chunker alone, on every text of SentenceTexts
InitSentence ==
    /\ chunker = ChunkerIdle
    /\ upl = UploadOff
    /\ stack = <<>>
    /\ index = EmptyBag
    /\ emb = EmbIdle
    /\ passes = [c \in ChunkIds |-> 0]
    /\ q = QIdle
    /\ cls = ClsIdle
    /\ asm = AsmIdle
    /\ ing = IngIdle
    /\ svc = SvcIdle
    /\ jtp \in JtpInputs
    /\ lc = LcIdle

NextSentence == ProcessSentences

SpecSentence == InitSentence /\ [][NextSentence]_vars

\* get_relevant_context alone
InitContext ==
    /\ chunker = ChunkerIdle
    /\ upl = UploadOff
    /\ stack = <<>>
    /\ index = EmptyBag
    /\ emb = EmbIdle
    /\ passes = [c \in ChunkIds |-> 0]
    /\ q = QIdle
    /\ cls = ClsIdle
    /\ asm = AsmIdle
    /\ ing = IngIdle
    /\ svc = SvcIdle
    /\ jtp = JtpIdle
    /\ lc \in LcInputs

NextContext ==
    \/ EmbedQueryOk
    \/ EmbedQueryFail
    \/ SimilaritySearchOk
    \/ SimilaritySearchFail

SpecContext == InitContext /\ [][NextContext]_vars

(***************************************************************************)
(* Properties.                                                             *)
(***************************************************************************)
Frames == {stack[d] : d \in 1..Len(stack)}

\* the elements of s at the positions where keep is TRUE, in order
RECURSIVE PickSeq(_, _)
PickSeq(s, keep) ==
    IF s = <<>> \/ keep = <<>> THEN <<>>
    ELSE (IF Head(keep) THEN <<Head(s)>> ELSE <<>>) \o PickSeq(Tail(s), Tail(keep))

Negate(keep) == [k \in 1..Len(keep) |-> ~keep[k]]

IdsOf(s) == [k \in 1..Len(s) |-> s[k].id]

\* C1: no chunk returned by split_text_into_chunks is longer than max_chunk_size
\* characters, the joining line separators counted.
C1_NoChunkLongerThanMax ==
    chunker.pc = "returned" =>
        \A k \in 1..Len(chunker.result) : Len(chunker.result[k]) <= chunker.max_chunk_size

\* C2: once the chunks of a batch have been through get_embedding, the batch goes
\* on: retry_chunks holds exactly the chunks whose embedding raised, vectors and
\* every list handed to index.upsert hold exactly the chunks whose embedding
\* returned, both in input order, and after the upsert those chunks are stored.
C2_FailureIsolation ==
    \A f \in Frames :
        f.pc \in {"upsert", "retry_check", "recursing"} =>
            /\ Len(f.outcomes) = Len(f.batch)
            /\ f.retry_chunks = PickSeq(f.batch, Negate(f.outcomes))
            /\ IdsOf(f.vectors) = IdsOf(PickSeq(f.batch, f.outcomes))
            /\ \A k \in 1..Len(f.vectors) :
                  /\ f.vectors[k].values = Embedding(f.vectors[k].metadata.text)
                  /\ f.vectors[k].metadata.text = PickSeq(f.batch, f.outcomes)[k].text
            /\ \A k \in 1..Len(f.sent) : f.sent[k] = f.vectors
            /\ f.ok => \A c \in {f.vectors[k].id : k \in 1..Len(f.vectors)} :
                           c \in StoredIds(index)

\* C2 witness: a batch of three whose middle chunk failed has been upserted with
\* the other two, and the failed chunk waits in retry_chunks.
C2_Witness ==
    \E f \in Frames :
        /\ f.pc = "retry_check"
        /\ f.ok
        /\ f.outcomes = <<TRUE, FALSE, TRUE>>
        /\ IdsOf(f.retry_chunks) = <<2>>
        /\ {1, 3} \subseteq StoredIds(index)

\* C3: within one top-level upload the retry set is re-submitted once: at most one
\* nested activation of upload_chunks, and at most two embedding passes per chunk.
C3_RetryDepthAtMostOne ==
    /\ Len(stack) <= 2
    /\ \A c \in ChunkIds : passes[c] <= 2

\* the permanently-failed chunk ids the ingestion result reports
ReportedFailedIds == IF upl.result = None THEN {} ELSE upl.result.failed_ids

\* C4: when upload has ended, every chunk whose embedding failed in the first pass
\* and in the resubmission pass is listed among the result's permanently-failed ids.
C4_TwiceFailedReported ==
    upl.outcome \in {"returned", "raised"} =>
        \A c \in ChunkIds : passes[c] >= 3 => c \in ReportedFailedIds

\* the dict query returned
Returned == q.result[1]

NoCandidatePasses ==
    \A k \in 1..Len(q.candidates) : q.candidates[k].score < q.similarity_threshold

\* C5: query falls back to the first top_k unfiltered candidates when none passes
\* the threshold, and returns no match only when there was no candidate.
C5_FallbackWhenNothingPasses ==
    q.pc = "returned" =>
        /\ (q.candidates # <<>> /\ NoCandidatePasses) =>
               Returned.matches = SubSeq(q.candidates, 1, Min(q.top_k, Len(q.candidates)))
        /\ Returned.matches = <<>> => q.candidates = <<>>

\* positions of the candidates that pass the threshold
PassingPositions ==
    {k \in 1..Len(q.candidates) : q.candidates[k].score >= q.similarity_threshold}

\* C6: query asks the index for 2 x top_k candidates, and when some candidate
\* passes the threshold the matches are the first top_k passing candidates in the
\* index's order: the r-th match is the r-th passing candidate.
C6_FilteredTopK ==
    /\ q.pc \in {"index_query", "returned"} => q.requested = 2 * q.top_k
    /\ (q.pc = "returned" /\ PassingPositions # {}) =>
          /\ Len(q.candidates) <= 2 * q.top_k
          /\ Len(Returned.matches) = Min(q.top_k, Cardinality(PassingPositions))
          /\ \A r \in 1..Len(Returned.matches) :
                /\ Returned.matches[r].score >= q.similarity_threshold
                /\ \E p \in PassingPositions :
                      /\ q.candidates[p] = Returned.matches[r]
                      /\ Cardinality({p2 \in PassingPositions : p2 <= p}) = r

\* C6 witness: more than top_k candidates pass, one below the threshold follows
\* them, and exactly top_k are returned.
C6_Witness ==
    /\ q.pc = "returned"
    /\ Cardinality(PassingPositions) > q.top_k
    /\ Cardinality(PassingPositions) < Len(q.candidates)
    /\ \E k \in PassingPositions : q.candidates[k].score = q.similarity_threshold
    /\ Len(Returned.matches) = q.top_k

OneEntryPerId(idx) ==
    \A e \in BagToSet(idx) :
        /\ idx[e] = 1
        /\ \A e2 \in BagToSet(idx) : e2.id = e.id => e2 = e

\* C7: every step of a repeated upload of the same chunks leaves the number of
\* index entries as it was after the first upload, with one entry per id.
C7_ReuploadIdempotent ==
    [][upl.callNo >= 2 =>
          /\ VectorCount(index') = VectorCount(index)
          /\ VectorCount(index') = Len(upl.chunks)
          /\ OneEntryPerId(index')]_vars

\* C7 witness: the second upload of three chunks has upserted and returned.
C7_Witness ==
    /\ upl.callNo = 2
    /\ upl.outcome = "returned"
    /\ Len(upl.chunks) = 3
    /\ VectorCount(index) = 3

\* C8: one get_embedding call makes at most 3 attempts, returns the vector of the
\* first attempt that succeeds, sleeps 1 then 2 between attempts and not after
\* the last, and raises when the third attempt fails.
C8_EmbeddingRetry ==
    /\ emb.calls <= 3
    /\ emb.slept = SubSeq(<<1, 2>>, 1, Len(emb.slept))
    /\ emb.pc = "try" => emb.calls = Len(emb.slept) /\ emb.calls <= 2
    /\ emb.pc = "returned" =>
          /\ emb.value = <<Embedding(emb.text)>>
          /\ emb.calls = Len(emb.slept) + 1
    /\ emb.pc = "raised" => emb.calls = 3 /\ emb.slept = <<1, 2>>

\* C8 witness: a call whose three attempts failed has raised.
C8_Witness == emb.pc = "raised" /\ emb.calls = 3

\* C9: for a batch with embedded chunks upload makes at most 3 upsert attempts,
\* all with the same vectors, stops at the first success, sleeps 2 then 4 between
\* attempts (from 2 again in every batch), and raises when the third fails.
C9_UpsertRetry ==
    \A f \in Frames :
        /\ Len(f.sent) <= 3
        /\ f.slept = SubSeq(<<2, 4>>, 1, Len(f.slept))
        /\ \A k \in 1..Len(f.sent) : f.sent[k] = f.vectors /\ f.vectors # <<>>
        /\ f.pc = "upsert" =>
              /\ ~f.ok
              /\ Len(f.sent) = Len(f.slept)
              /\ Len(f.sent) <= 2
              /\ f.retry_delay = IF f.slept = <<>> THEN 2 ELSE 2 * f.slept[Len(f.slept)]
        /\ f.ok => Len(f.sent) = Len(f.slept) + 1
        /\ (~f.ok /\ Len(f.sent) = 3) => f.pc = "raise" /\ f.slept = <<2, 4>>
        /\ (f.pc \in {"retry_check", "recursing"} /\ f.vectors # <<>>) => f.ok

\* C9 witness: a batch whose three upsert attempts failed raises.
C9_Witness ==
    \E f \in Frames : f.pc = "raise" /\ ~f.ok /\ Len(f.sent) = 3 /\ f.slept = <<2, 4>>

\* C10: query makes at most 3 attempts, sleeping 1 then 2 between them; when the
\* third fails it raises, and it returns only what a successful index.query gave.
C10_QueryRetry ==
    /\ q.failures <= 3
    /\ q.slept = SubSeq(<<1, 2>>, 1, Len(q.slept))
    /\ q.pc \in {"for_attempt", "embedding", "index_query"} =>
          q.failures = Len(q.slept) /\ q.failures <= 2
    /\ q.failures = 3 <=> q.pc = "raised"
    /\ q.pc = "raised" => q.slept = <<1, 2>> /\ q.result = <<>>
    /\ q.pc = "returned" =>
          /\ q.failures = Len(q.slept)
          /\ q.calls >= 1
          /\ Len(q.result) = 1
          /\ Returned.total_matches = Len(q.candidates)
          /\ q.requested = RequestedCandidates(q.top_k)

\* C10 witness: the third attempt failed at index.query and query raised.
C10_Witness == q.pc = "raised" /\ q.calls >= 1 /\ q.failures = 3

\* C11: a query whose threshold lies outside [0, 1] is rejected before any
\* embedding or index call: get_embedding is never entered for it.
C11_InvalidThresholdRejected ==
    q.similarity_threshold > MaxScore =>
        /\ q.pc \in {"for_attempt", "rejected"}
        /\ emb.pc = "idle"
        /\ q.calls = 0

\* the lines of a text as the caller sees them: split on the separator, stripped,
\* blank ones left out
RECURSIVE NonBlankLines(_)
NonBlankLines(lines) ==
    IF lines = <<>> THEN <<>>
    ELSE LET line == Strip(Head(lines))
         IN  (IF line = <<>> THEN <<>> ELSE <<line>>) \o NonBlankLines(Tail(lines))

\* the lines of all chunks, in chunk order
RECURSIVE LinesOfChunks(_)
LinesOfChunks(chunks) ==
    IF chunks = <<>> THEN <<>>
    ELSE SplitLines(Head(chunks)) \o LinesOfChunks(Tail(chunks))

\* C12: the chunks of split_text_into_chunks, split on the line separator, are in
\* order exactly the stripped non-blank lines of the input; no chunk is empty; an
\* input without a non-blank line gives no chunk, for every max_chunk_size.
C12_ContentPreserved ==
    chunker.pc = "returned" =>
        /\ LinesOfChunks(chunker.result) = NonBlankLines(SplitLines(chunker.text))
        /\ \A k \in 1..Len(chunker.result) : chunker.result[k] # <<>>
        /\ NonBlankLines(SplitLines(chunker.text)) = <<>> => chunker.result = <<>>

C12_Witness ==
    /\ chunker.pc = "returned"
    /\ Len(chunker.result) >= 2
    /\ \E k \in 1..Len(SplitLines(chunker.text)) : Strip(SplitLines(chunker.text)[k]) = <<>>
    /\ \E k \in 1..Len(SplitLines(chunker.text)) :
           /\ SplitLines(chunker.text)[k] # Strip(SplitLines(chunker.text)[k])
           /\ Strip(SplitLines(chunker.text)[k]) # <<>>

\* the keywords of all tables
AllKeywords ==
    Range(history_culture_keywords) \cup Range(timetable_keywords)
    \cup UNION {Range(keyword_mapping(p[1], p[2])) : p \in ScorePairs}

NoKeywordIn(text) == \A keyword \in AllKeywords : ~Contains(text, keyword)

\* the lines of the classified text the loop has gone through, stripped
ProcessedLines == {Strip(cls.lines[j]) : j \in 1..(cls.k - 1)}

StructuralKeywordIn(line) == \E keyword \in Range(timetable_keywords) : Contains(line, keyword)

HistoryScore == cls.locals.subcategory_scores[<<"chiiki_tokusei", "machi_no_rekishi">>]
TransitScore == cls.locals.subcategory_scores[<<"chiiki_tokusei", "koutsuu_access">>]

\* C13: the confidence analyze_text_category returns is in [0, 1], and it is 0
\* when no keyword of any table occurs in the text.
C13_ConfidenceRange ==
    cls.pc = "returned" =>
        LET c == cls.result[1].confidence_score
        IN  /\ c.den > 0
            /\ 0 <= c.num /\ c.num <= c.den
            /\ NoKeywordIn(cls.text) => c.num = 0

C13_Witness ==
    /\ cls.pc = "returned"
    /\ NoKeywordIn(cls.text)
    /\ <<"6:02">> \in ProcessedLines
    /\ cls.result[1].confidence_score.num = 0

\* C14: a line with a history/culture keyword adds twice its keyword count to the
\* history subcategory and to that subcategory's main category and changes nothing
\* else: no other score, not the timetable flag.
C14_OverrideLineFrame ==
    [][(cls.pc = "for_line" /\ cls.k <= Len(cls.lines)
        /\ \E keyword \in Range(history_culture_keywords) :
               Contains(Strip(cls.lines[cls.k]), keyword))
       => LET n == 2 * KeywordCount(history_culture_keywords, Strip(cls.lines[cls.k]))
          IN  /\ cls'.locals.is_timetable = cls.locals.is_timetable
              /\ cls'.locals.flagged_by = cls.locals.flagged_by
              /\ \A main \in Range(main_categories) :
                     cls'.locals.category_scores[main] =
                         cls.locals.category_scores[main]
                         + (IF main = "chiiki_tokusei" THEN n ELSE 0)
              /\ \A p \in ScorePairs :
                     cls'.locals.subcategory_scores[p] =
                         cls.locals.subcategory_scores[p]
                         + (IF p = <<"chiiki_tokusei", "machi_no_rekishi">> THEN n ELSE 0)]_vars

C14_Witness ==
    /\ ~cls.locals.is_timetable
    /\ HistoryScore > 0
    /\ \E line \in ProcessedLines :
           /\ Contains(line, <<"rekishi">>)
           /\ StructuralKeywordIn(line) /\ PatternMatches(line) >= 2
    /\ \E line \in ProcessedLines : Contains(line, <<"rekishi">>) /\ Contains(line, <<"bukken">>)

\* C15: only a line that has a structural keyword and matches at least two
\* structural patterns sets the timetable flag; without such a line the flag is
\* never set.
C15_StructuralNeedsBoth ==
    /\ \A line \in cls.locals.flagged_by :
           StructuralKeywordIn(line) /\ PatternMatches(line) >= 2
    /\ (cls.pc = "for_line" /\ cls.locals.is_timetable) => cls.locals.flagged_by # {}
    /\ (\A line \in ProcessedLines : ~(StructuralKeywordIn(line) /\ PatternMatches(line) >= 2))
           => ~cls.locals.is_timetable

C15_Witness ==
    /\ cls.pc = "for_line"
    /\ cls.locals.is_timetable
    /\ \E line \in ProcessedLines : StructuralKeywordIn(line) /\ PatternMatches(line) = 1
    /\ \E line \in ProcessedLines : ~StructuralKeywordIn(line) /\ PatternMatches(line) = 1

\* C16 as claimed: when the timetable flag was set and the history score equals the
\* transit score, the flag is retracted and the scoring branch gives the result.
C16_TieRetractsStructural ==
    (cls.pc = "returned" /\ cls.locals.flagged_by # {} /\ HistoryScore = TransitScore)
        => /\ ~cls.locals.is_timetable
           /\ cls.result = <<ScoringResult(cls.locals)>>

\* C16: the timetable flag, once set, is retracted exactly when the history score
\* is greater than the transit score; on equal scores it stands and the result is
\* the timetable result with confidence 0.9.
C16_RetractedOnlyWhenGreater ==
    (cls.pc = "returned" /\ cls.locals.flagged_by # {})
        => IF HistoryScore > TransitScore
           THEN ~cls.locals.is_timetable /\ cls.result = <<ScoringResult(cls.locals)>>
           ELSE cls.locals.is_timetable /\ cls.result = <<TimetableResult>>

C16_Witness ==
    /\ cls.pc = "returned"
    /\ cls.locals.flagged_by # {}
    /\ HistoryScore = TransitScore
    /\ cls.result = <<TimetableResult>>

\* C17: a call of process_text_file whose metadata has no filename or no document
\* id raises a validation error; no emitted record has an empty filename or the
\* placeholder id.
C17_RequiredFieldsEnforced ==
    /\ (asm.pc \notin {"idle", "called"}
        /\ ("filename" \notin DOMAIN asm.metadata \/ "id" \notin DOMAIN asm.metadata))
           => asm.pc = "raised"
    /\ \A k \in 1..Len(asm.result) :
           /\ asm.result[k].metadata.filename # ""
           /\ Head(asm.result[k].id) # "chunk"

\* the records process_text_file emitted in the saves made so far
EmittedChunks ==
    UNION {{ing.emitted[n][k] : k \in 1..Len(ing.emitted[n])} : n \in 1..Len(ing.emitted)}

\* C18: every entry of the index that comes from a record of process_text_file has
\* that record's id and text, and its metadata has the keys chunk_id, filename,
\* main_category, sub_category and confidence_score with the record's values.
C18_StoredMetadataComplete ==
    \A e \in BagToSet(index) :
        \E c \in EmittedChunks :
            /\ e.id = c.id
            /\ e.metadata.text = c.text
            /\ {"chunk_id", "filename", "main_category", "sub_category", "confidence_score"}
                   \subseteq DOMAIN e.metadata
            /\ e.metadata.main_category = c.metadata.main_category
            /\ e.metadata.sub_category = c.metadata.sub_category
            /\ e.metadata.confidence_score = c.metadata.confidence_score
            /\ e.metadata.filename = c.metadata.filename
            /\ e.metadata.chunk_id = c.metadata.chunk_id

\* C20: the ids of a file's chunks depend only on the file and the ordinal: every
\* save of the same file emits the same ids, and the index never holds more
\* entries than the file has chunks.
C20_IdsDeterministic ==
    /\ \A a, b \in 1..Len(ing.emitted) : IdsOf(ing.emitted[a]) = IdsOf(ing.emitted[b])
    /\ ing.emitted # <<>> => VectorCount(index) <= Len(ing.emitted[1])

\* C19: a service whose index has a dimension other than the embedding dimension
\* fails its construction: it is never ready.
C19_DimensionChecked ==
    svc.pc = "ready" => svc.dimension = <<EmbeddingDimension>>

\* C21: when a line set the timetable flag and the history score is not greater
\* than the transit score, the result is the transit subcategory of the region
\* category with confidence 9/10, whatever the scores are.
C21_StructuralResultFixed ==
    (cls.pc = "returned" /\ cls.locals.flagged_by # {} /\ ~(HistoryScore > TransitScore))
        => cls.result = <<[main_category |-> "chiiki_tokusei",
                           sub_category |-> "koutsuu_access",
                           confidence_score |-> [num |-> 9, den |-> 10]]>>

C21_Witness ==
    /\ cls.pc = "returned"
    /\ cls.locals.flagged_by # {}
    /\ cls.locals.category_scores["bukken_gaiyou"] > cls.locals.category_scores["chiiki_tokusei"]
    /\ cls.result[1].sub_category = "koutsuu_access"

\* what the claim of C22 has a line add to the pair p of a main category and a
\* subcategory
ClaimedWeight(line, p) ==
    IF line = <<>> THEN 0
    ELSE IF \E keyword \in Range(history_culture_keywords) : Contains(line, keyword)
    THEN IF p = <<"chiiki_tokusei", "machi_no_rekishi">>
         THEN 2 * KeywordCount(history_culture_keywords, line) ELSE 0
    ELSE IF StructuralKeywordIn(line) /\ PatternMatches(line) >= 2
    THEN IF p = <<"chiiki_tokusei", "koutsuu_access">> THEN 3 ELSE 0
    ELSE KeywordCount(keyword_mapping(p[1], p[2]), line)
         * (IF p[2] = "machi_no_rekishi" THEN 2 ELSE 1)

RECURSIVE ClaimedScore(_, _, _)
ClaimedScore(lines, n, p) ==
    IF n = 0 THEN 0 ELSE ClaimedScore(lines, n - 1, p) + ClaimedWeight(Strip(lines[n]), p)

\* C22: every non-blank line without a history keyword that does not set the
\* timetable flag is scored generically, a line with a timetable keyword and fewer
\* than two matching patterns included: after any number of lines each subcategory
\* score is the sum of what the three rules give the lines gone through.
C22_UnclaimedLinesScoredGenerically ==
    \A p \in ScorePairs :
        cls.locals.subcategory_scores[p] = ClaimedScore(cls.lines, cls.k - 1, p)

\* C30: each main category's score is the sum of its subcategories' scores; the
\* returned subcategory is one of the returned main category's; on the scoring
\* branch the confidence is 0 or at least 1/2.
C30_ScoresConsistent ==
    /\ \A main \in Range(main_categories) :
           cls.locals.category_scores[main] =
               SumScores(subcategories(main),
                         [sub \in Range(subcategories(main)) |->
                              cls.locals.subcategory_scores[<<main, sub>>]])
    /\ cls.pc = "returned" =>
           /\ cls.result[1].sub_category \in Range(subcategories(cls.result[1].main_category))
           /\ ~cls.locals.is_timetable =>
                  \/ cls.result[1].confidence_score.num = 0
                  \/ 2 * cls.result[1].confidence_score.num >= cls.result[1].confidence_score.den

C30_Witness ==
    /\ cls.pc = "returned"
    /\ ~cls.locals.is_timetable
    /\ cls.result[1].main_category = "bukken_gaiyou"
    /\ cls.result[1].confidence_score.num < cls.result[1].confidence_score.den
    /\ cls.locals.subcategory_scores[<<"bukken_gaiyou", "kakaku_hiyou">>] > 0
    /\ cls.locals.subcategory_scores[<<"bukken_gaiyou", "gaiyou_area">>] > 0

\* the slices the claim of C24 expects for a sentence longer than chunk_size
ExpectedSlices(sentence, chunk_size) ==
    [t \in 1..((Len(sentence) + chunk_size - 1) \div chunk_size) |->
        SubSeq(sentence, (t - 1) * chunk_size + 1, Min(t * chunk_size, Len(sentence)))]

\* C24: JapaneseTextProcessor.process_text_file emits a sentence longer than
\* chunk_size as consecutive slices of chunk_size characters, the last possibly
\* shorter, and no emitted chunk text is longer than chunk_size.
C24_SentenceChunksBounded ==
    jtp.pc = "returned" =>
        /\ \A k \in 1..Len(jtp.result) : Len(jtp.result[k].text) <= jtp.chunk_size
        /\ \A n \in 1..Len(split_into_sentences(jtp.file_content)) :
               LET sentence == split_into_sentences(jtp.file_content)[n]
                   slices == ExpectedSlices(sentence, jtp.chunk_size)
               IN  Len(sentence) > jtp.chunk_size =>
                       \E j \in 0..(Len(jtp.result) - Len(slices)) :
                           \A t \in 1..Len(slices) : jtp.result[j + t].text = slices[t]

C24_Witness ==
    /\ jtp.pc = "returned"
    /\ Len(jtp.result) >= 3
    /\ \E n \in 1..Len(split_into_sentences(jtp.file_content)) :
           /\ Len(split_into_sentences(jtp.file_content)[n]) > jtp.chunk_size
           /\ Len(split_into_sentences(jtp.file_content)[n]) % jtp.chunk_size # 0

\* C25: the chunks JapaneseTextProcessor.process_text_file emits for one document
\* have pairwise distinct ids and pairwise distinct chunk_id ordinals.
C25_SentenceChunkIdsDistinct ==
    \A a, b \in 1..Len(jtp.result) :
        a # b => /\ jtp.result[a].id # jtp.result[b].id
                 /\ jtp.result[a].metadata.chunk_id # jtp.result[b].metadata.chunk_id

\* C23: a retry set is re-submitted only after all batches of the input are done:
\* while a nested activation of upload_chunks runs, the outermost activation is in
\* its last batch.
C23_RetryAfterAllBatches ==
    Len(stack) >= 2 => stack[1].i + stack[1].batch_size >= Len(stack[1].chunks)

\* an activation whose batch had its three upsert attempts fail
UpsertExhausted(f) == ~f.ok /\ Len(f.sent) = 3

\* C26, the state part: an activation at depth d whose batch exhausted its upsert
\* attempts is raising, has started no nested activation, has written none of the
\* batch's vectors (first call), has left its later batches and its retry set
\* without a further embedding pass.
C26_ExhaustedState ==
    \A d \in 1..Len(stack) :
        LET f == stack[d]
        IN  UpsertExhausted(f) =>
                /\ f.pc = "raise"
                /\ d = Len(stack)
                /\ upl.callNo = 1 =>
                       \A k \in 1..Len(f.vectors) : f.vectors[k].id \notin StoredIds(index)
                /\ \A k \in 1..Len(f.retry_chunks) : passes[f.retry_chunks[k].id] = d
                /\ \A k \in (f.i + f.batch_size + 1)..Len(f.chunks) :
                       passes[f.chunks[k].id] = d - 1

\* C26: when the upsert of a batch exhausts its 3 attempts upload_chunks raises
\* and stops: nothing of the batch is written, no later batch and no retry set is
\* embedded or upserted, and what earlier batches wrote stays in the index.
C26_UpsertExhaustionStops ==
    /\ []C26_ExhaustedState
    /\ [][/\ StoredIds(index) \subseteq StoredIds(index')
          /\ (upl.outcome = "raised" \/ (stack # <<>> /\ Top.pc = "raise"))
                 => (index' = index /\ passes' = passes)]_vars

C26_Witness ==
    /\ Len(stack) = 1
    /\ UpsertExhausted(stack[1])
    /\ stack[1].pc = "raise"
    /\ stack[1].retry_chunks # <<>>
    /\ stack[1].i + stack[1].batch_size < Len(stack[1].chunks)

NoUpsertExhaustion == \A f \in Frames : ~UpsertExhausted(f)

\* no chunk's embedding fails in the pass of the deepest activation the recursion
\* limit allows
NoFailureAtRecursionLimit ==
    \A d \in 1..Len(stack) : d >= RecursionLimit => stack[d].retry_chunks = <<>>

\* the index holds, for every chunk of the call, an entry with the chunk's text
AllChunksStored ==
    \A k \in 1..Len(upl.chunks) :
        \E e \in BagToSet(index) :
            e.id = upl.chunks[k].id /\ e.metadata.text = upl.chunks[k].text

EmbeddingServiceCalls == q.embedding_calls + (IF q.pc = "embedding" THEN emb.calls ELSE 0)

\* C28: one call of query makes at most 3 index.query calls and at most 9 calls to
\* the embedding service, and a get_embedding call that raised costs one attempt of
\* query: query raises only when three attempts failed.
C28_QueryCallBudget ==
    /\ q.calls <= 3
    /\ EmbeddingServiceCalls <= 9
    /\ q.embedding_raised <= q.failures
    /\ q.pc \in {"for_attempt", "embedding", "index_query", "returned"} =>
           q.attempt = q.failures /\ q.failures <= 2
    /\ q.pc = "raised" => q.failures = 3

C28_Witness ==
    /\ q.pc = "raised"
    /\ q.embedding_raised = 3
    /\ EmbeddingServiceCalls = 9
    /\ q.calls = 0

\* the positions of docs whose score reaches SIMILARITY_THRESHOLD, in index order
PassingDocPositions ==
    LET RECURSIVE From(_)
        From(k) == IF k > Len(lc.docs) THEN <<>>
                   ELSE (IF lc.docs[k].score * 10 >= 7 * MaxScore THEN <<k>> ELSE <<>>)
                        \o From(k + 1)
    IN  From(1)

\* the positions of docs the search details are expected to describe
ExpectedDocPositions ==
    LET n == Len(PassingDocPositions)
    IN  IF n > 0
        THEN [k \in 1..(IF n <= lc.top_k THEN n ELSE lc.top_k) |-> PassingDocPositions[k]]
        ELSE [k \in 1..(IF Len(lc.docs) <= lc.top_k THEN Len(lc.docs) ELSE lc.top_k) |-> k]

\* the search detail k describes the document at position p of docs
Describes(detail, p) ==
    /\ detail.judgement.process.text = WithMetadataText(lc.docs[p]).doc.page_content
    /\ detail.score = Round(lc.docs[p].score, ScoreDigits)
    /\ detail.judgement.at_least = (lc.docs[p].score * 10 >= 7 * MaxScore)

\* C29: with top_k >= 1, get_relevant_context returns no search details only when
\* the index answered no candidate; it describes the first top_k candidates that
\* reach SIMILARITY_THRESHOLD, in index order, or, when none reaches it, the first
\* top_k candidates; passing and non-passing candidates are never mixed.
C29_BestAvailableContext ==
    (lc.pc = "returned" /\ lc.top_k >= 1) =>
        LET details == lc.result[1].search_details
        IN  /\ details = <<>> => lc.docs = <<>>
            /\ Len(details) = Len(ExpectedDocPositions)
            /\ \A k \in 1..Len(details) : Describes(details[k], ExpectedDocPositions[k])
            /\ \/ \A k \in 1..Len(details) : details[k].judgement.at_least
               \/ \A k \in 1..Len(details) : ~details[k].judgement.at_least

\* a passing candidate behind a non-passing one is returned alone
C29_Witness ==
    /\ lc.pc = "returned"
    /\ lc.top_k = 2
    /\ Len(lc.docs) = 3
    /\ ExpectedDocPositions = <<2>>
    /\ Len(lc.result[1].search_details) = 1

\* nothing passes and the first top_k candidates are returned
C29_WitnessFallback ==
    /\ lc.pc = "returned"
    /\ lc.top_k = 1
    /\ Len(lc.docs) = 2
    /\ PassingDocPositions = <<>>
    /\ Len(lc.result[1].search_details) = 1

====
